---- MODULE Spec2Model ----
(***************************************************************************)
(* Model of epfml.bundle: packaging a directory tree into a tar archive    *)
(* with a content-derived identifier (tar_package), selecting the files    *)
(* with gitignore-style exclude / include rules and a size limit           *)
(* (_filter_files), hashing the selected files (_multi_file_sha1_hash),    *)
(* and extracting the archive again (tar_extract).                         *)
(*                                                                         *)
(* Representation.  A file name is a sequence of one-character strings, a  *)
(* path is a sequence of names, file contents are sequences of byte        *)
(* values.  The file system below the packaged directory is the function   *)
(* fs from relative paths to [type, data, st_size].  Library calls are     *)
(* modelled by what they do on these values: pathlib (rglob, relative_to,  *)
(* resolve().name), pathspec (gitwildmatch on slash-free, non-negated      *)
(* patterns), tarfile (add with its recursion into directories,            *)
(* extractall), toml.load (the parsed dictionary) and hashlib.sha1 (a      *)
(* streaming digest of HexLen hex characters; the compression function is  *)
(* abstract, the streaming structure is kept).  The gzip layer of the      *)
(* archive is an encoding that tar_extract undoes and is not represented:  *)
(* Package.contents is the sequence of tar members.                        *)
(***************************************************************************)
EXTENDS Integers, Sequences, FiniteSets, TLC

(***************************************************************************)
(* Bounds of the model                                                     *)
(***************************************************************************)
MaxBytes == 2          \* longest file contents drawn in Init
MaxHashCalls == 2      \* calls of _multi_file_sha1_hash in SpecHash
MaxRenames == 1        \* renames between those calls in SpecHash

(***************************************************************************)
(* Program constants                                                       *)
(***************************************************************************)
DefaultMaxFileSize == 100000   \* bundle.py:63
SuffixLen == 8                 \* bundle.py:89  hash[-8:]
HexLen == 40                   \* bundle.py:131 a sha1 hexdigest has 40 characters
DirBlock == 4096               \* st_size of a directory on a block file system

(***************************************************************************)
(* Characters, names, paths                                                *)
(***************************************************************************)
\* the characters used, in code-point order (for sorted(os.listdir(...)))
Ascii == <<"*", ".", "0", "1", "2", "3", "4", "5", "6", "7", "8", "9", "?",
           "A", "D", "_", "a", "b", "c", "d", "e", "f", "g", "h", "i", "j",
           "k", "l", "m", "n", "o", "p", "r", "s", "t", "u", "v", "w", "x", "y">>

Ord(c) == CHOOSE i \in 1..Len(Ascii) : Ascii[i] = c

HexChars == <<"0", "1", "2", "3", "4", "5", "6", "7", "8", "9",
              "a", "b", "c", "d", "e", "f">>

N_a == <<"a", ".", "p", "y">>
N_sub == <<"s", "u", "b">>
N_c == <<"c", ".", "p", "y">>
N_d == <<"d", ".", "p", "y", "c">>
N_toml == <<".", "c", "o", "d", "e", "p", "a", "c", "k", ".", "t", "o", "m", "l">>
N_w == <<"w">>
N_proj == <<"p", "r", "o", "j">>
N_core == <<"c", "o", "r", "e">>
N_e == <<"e", ".", "p", "y">>

P_pyc == <<"*", ".", "p", "y", "c">>

DEFAULT_EXCLUDE_LIST ==
    << <<"_", "_", "p", "y", "c", "a", "c", "h", "e", "_", "_">>,
       <<".", "_", "*">>,
       <<".", "A", "p", "p", "l", "e", "D", "o", "u", "b", "l", "e">>,
       <<".", "g", "i", "t">>,
       <<".", "g", "i", "t", "i", "g", "n", "o", "r", "e">>,
       <<".", "i", "p", "y", "n", "b", "_", "c", "h", "e", "c", "k", "p", "o", "i", "n", "t", "s">>,
       <<".", "p", "y", "l", "i", "n", "t", "r", "c">>,
       <<".", "v", "s", "c", "o", "d", "e">>,
       <<"*", ".", "e", "x", "r">>,
       <<"*", ".", "p", "y", "c">>,
       <<"c", "o", "r", "e">> >>

DEFAULT_INCLUDE_LIST == <<>>

DefaultConfig ==
    [exclude |-> DEFAULT_EXCLUDE_LIST,
     include |-> DEFAULT_INCLUDE_LIST,
     max_file_size |-> DefaultMaxFileSize]

(***************************************************************************)
(* pathspec: GitWildMatchPattern on slash-free patterns.  Such a pattern   *)
(* matches a path when it matches one of the path's components (the file   *)
(* itself or a directory above it); "*" matches any run of characters of   *)
(* one component, "?" one character.                                       *)
(***************************************************************************)
RECURSIVE GlobMatch(_, _)
GlobMatch(pat, name) ==
    IF pat = <<>> THEN name = <<>>
    ELSE IF Head(pat) = "*"
         THEN GlobMatch(Tail(pat), name)
              \/ (name # <<>> /\ GlobMatch(pat, Tail(name)))
         ELSE /\ name # <<>>
              /\ (Head(pat) = "?" \/ Head(pat) = Head(name))
              /\ GlobMatch(Tail(pat), Tail(name))

\* PathSpec.match_file(file): normalize_file drops the leading "/" or "./"
\* and keeps every component of the path it is given.
MatchFile(patterns, file) ==
    \E i \in 1..Len(patterns) : \E j \in 1..Len(file) :
        GlobMatch(patterns[i], file[j])

(***************************************************************************)
(* pathlib                                                                 *)
(***************************************************************************)
\* file.relative_to(directory)
RelativeTo(file, directory) == SubSeq(file, Len(directory) + 1, Len(file))

\* p.name of a resolved path
Basename(resolved) == IF resolved = <<>> THEN <<>> ELSE resolved[Len(resolved)]

\* the regular-file test and the stat of a path below the directory
IsFile(f, directory, file) ==
    /\ RelativeTo(file, directory) \in DOMAIN f
    /\ f[RelativeTo(file, directory)].type = "reg"

ParentOf(p) == SubSeq(p, 1, Len(p) - 1)

Children(f, rel) == {p \in DOMAIN f : Len(p) = Len(rel) + 1 /\ ParentOf(p) = rel}

(***************************************************************************)
(* The decision of one iteration of _filter_files                          *)
(***************************************************************************)
Decide_SizeFirst(file, size, exclude, include, max_size) ==
    IF MatchFile(exclude, file) THEN "skip"
    ELSE IF size > max_size THEN "raise"
    ELSE "yield"

Decide_Ge(file, size, exclude, include, max_size) ==
    IF MatchFile(exclude, file) THEN "skip"
    ELSE IF MatchFile(include, file) THEN "yield"
    ELSE IF size >= max_size THEN "raise"
    ELSE "yield"

Decide(file, size, exclude, include, max_size) ==
    IF MatchFile(exclude, file) THEN "skip"
    ELSE IF MatchFile(include, file) THEN "yield"
    ELSE IF size > max_size THEN "raise"
    ELSE "yield"

(***************************************************************************)
(* Config merge: {**config, **user_config}                                 *)
(***************************************************************************)
MergeConfig_DefaultsWin(config0, user_config) ==
    [k \in DOMAIN config0 \cup DOMAIN user_config |->
        IF k \in DOMAIN config0 THEN config0[k] ELSE user_config[k]]

MergeConfig(config0, user_config) ==
    [k \in DOMAIN config0 \cup DOMAIN user_config |->
        IF k \in DOMAIN user_config THEN user_config[k] ELSE config0[k]]

(***************************************************************************)
(* tarfile: TarFile.add(name, arcname) with recursive=True.  A regular     *)
(* file becomes one member; a directory becomes a directory member         *)
(* followed by everything below it, in sorted(os.listdir(name)) order.     *)
(***************************************************************************)
RECURSIVE NameLess(_, _)
NameLess(a, b) ==
    IF b = <<>> THEN FALSE
    ELSE IF a = <<>> THEN TRUE
    ELSE IF Head(a) = Head(b) THEN NameLess(Tail(a), Tail(b))
    ELSE Ord(Head(a)) < Ord(Head(b))

RECURSIVE SortedNames(_)
SortedNames(S) ==
    IF S = {} THEN <<>>
    ELSE LET m == CHOOSE x \in S : \A y \in S \ {x} : NameLess(x, y)
         IN  <<m>> \o SortedNames(S \ {m})

ListDir(f, rel) == {p[Len(p)] : p \in Children(f, rel)}

RECURSIVE TarAdd(_, _, _, _)
RECURSIVE TarAddChildren(_, _, _, _, _)
TarAdd(f, directory, file, arcname) ==
    LET rel == RelativeTo(file, directory)
    IN  IF f[rel].type = "reg"
        THEN << [name |-> arcname, type |-> "reg", data |-> f[rel].data] >>
        ELSE << [name |-> arcname, type |-> "dir", data |-> <<>>] >>
             \o TarAddChildren(f, directory, file, arcname,
                               SortedNames(ListDir(f, rel)))

TarAddChildren(f, directory, file, arcname, names) ==
    IF names = <<>> THEN <<>>
    ELSE TarAdd(f, directory, file \o <<Head(names)>>, arcname \o <<Head(names)>>)
         \o TarAddChildren(f, directory, file, arcname, Tail(names))

\* the arcname tar_package gives to a selected file
Arcname_Abs(file, directory) == file

Arcname(file, directory) == RelativeTo(file, directory)

(***************************************************************************)
(* tarfile: TarFile.extractall(output_directory).  The members are         *)
(* extracted in archive order; missing parent directories are created; a   *)
(* regular member (re)writes the file at its name.                         *)
(***************************************************************************)
Ancestors(p) == {SubSeq(p, 1, k) : k \in 1..(Len(p) - 1)}

ExtractMember(out, m) ==
    LET made == Ancestors(m.name) \ DOMAIN out
    IN  [p \in DOMAIN out \cup made \cup {m.name} |->
            IF p = m.name
            THEN IF m.type = "reg" THEN [type |-> "reg", data |-> m.data]
                 ELSE IF p \in DOMAIN out THEN out[p]
                 ELSE [type |-> "dir", data |-> <<>>]
            ELSE IF p \in DOMAIN out THEN out[p]
            ELSE [type |-> "dir", data |-> <<>>]]

RECURSIVE ExtractAll(_, _)
ExtractAll(members, out) ==
    IF members = <<>> THEN out
    ELSE ExtractAll(Tail(members), ExtractMember(out, Head(members)))

(***************************************************************************)
(* hashlib.sha1: a streaming digest.  The state is HexLen lanes of four    *)
(* bits; update() absorbs the bytes one by one, so that update(a) followed *)
(* by update(b) equals update(a + b), as for sha1.                         *)
(***************************************************************************)
Lane(i) == i + (i \div 16)

Sha1Init == [i \in 1..HexLen |-> Lane(i) % 16]

Sha1Byte(h, b) == [i \in 1..HexLen |-> (h[i] * 5 + b + Lane(i)) % 16]

RECURSIVE Sha1Update(_, _)
Sha1Update(h, data) ==
    IF data = <<>> THEN h
    ELSE Sha1Update(Sha1Byte(h, Head(data)), Tail(data))

Hexdigest(h) == [i \in 1..HexLen |-> HexChars[h[i] + 1]]

NameBytes(name) == [i \in 1..Len(name) |-> Ord(name[i])]

\* one iteration of the loop of _multi_file_sha1_hash
HashUpdate_WithName(h, f, directory, file) ==
    IF IsFile(f, directory, file)
    THEN Sha1Update(Sha1Update(h, NameBytes(file[Len(file)])),
                    f[RelativeTo(file, directory)].data)
    ELSE h

HashUpdate(h, f, directory, file) ==
    IF IsFile(f, directory, file)
    THEN Sha1Update(h, f[RelativeTo(file, directory)].data)
    ELSE h

RECURSIVE HashLoop(_, _, _, _)
HashLoop(h, f, directory, files) ==
    IF files = <<>> THEN h
    ELSE HashLoop(HashUpdate(h, f, directory, Head(files)), f, directory, Tail(files))

\* _multi_file_sha1_hash(files)
MultiFileSha1Hash(f, directory, files) ==
    Hexdigest(HashLoop(Sha1Init, f, directory, files))

(***************************************************************************)
(* The package identifier                                                  *)
(***************************************************************************)
RECURSIVE Pow10(_)
Pow10(n) == IF n = 0 THEN 1 ELSE 10 * Pow10(n - 1)

Digits(n, width) ==
    [i \in 1..width |-> HexChars[((n \div Pow10(width - i)) % 10) + 1]]

\* datetime.strftime("%Y%m%d")
Strftime(d) == Digits(d.year, 4) \o Digits(d.month, 2) \o Digits(d.day, 2)

\* f"{user}_{basename}_{date}_{hash[-8:]}"
PackageId_Head(user, basename, date, hash) ==
    user \o <<"_">> \o basename \o <<"_">> \o date \o <<"_">>
         \o SubSeq(hash, 1, SuffixLen)

PackageId(user, basename, date, hash) ==
    user \o <<"_">> \o basename \o <<"_">> \o date \o <<"_">>
         \o SubSeq(hash, Len(hash) - SuffixLen + 1, Len(hash))

(***************************************************************************)
(* State                                                                   *)
(***************************************************************************)
VARIABLES
    fs,             \* the tree below the directory: relative path -> entry
    order,          \* the order in which directory.rglob("*") yields the tree
    directory,      \* the argument of tar_package, as path components
    resolved,       \* directory.resolve()
    codepack,       \* directory/.codepack.toml: [exists, data (parsed)]
    ldap,           \* epfml.config.ldap
    now,            \* the date datetime.now() returns
    pc,             \* position in tar_package / tar_extract
    config,         \* the local config of tar_package
    pos,            \* index of the running loop
    included_files, \* list(_filter_files(...)), or the argument of the hash
    tar,            \* members written to the archive so far
    hash,           \* state of the sha1 object
    hashed,         \* the byte strings given to hash.update, in order
    package,        \* the Package returned: [built, id, contents]
    error,          \* the RuntimeError raised: [raised, file]
    dest,           \* the output directory of tar_extract: path -> entry
    digests,        \* results of successive _multi_file_sha1_hash calls
    renames         \* number of renames done between them

vars == <<fs, order, directory, resolved, codepack, ldap, now, pc, config, pos,
          included_files, tar, hash, hashed, package, error, dest, digests,
          renames>>

(***************************************************************************)
(* The inputs drawn in Init                                                *)
(***************************************************************************)
PathA == <<N_a>>
PathS == <<N_sub>>
PathC == <<N_sub, N_c>>
PathD == <<N_sub, N_d>>
PathT == <<N_toml>>

\* a.py has any of the contents; sub/c.py is two bytes long, sub/d.pyc and
\* .codepack.toml one byte
ContentsC == <<5, 6>>
ContentsD == <<9>>
ContentsT == <<8>>

\* the trees: a.py, sub/, sub/c.py, sub/d.pyc, each present or not
PathSets ==
    {P \in SUBSET {PathA, PathS, PathC, PathD} :
        (PathC \in P \/ PathD \in P) => PathS \in P}

Contents == {[i \in 1..n |-> n + i - 1] : n \in 1..MaxBytes}

DirSizes == {0, DirBlock}

EmptyDict == [k \in {} |-> 0]

\* the dictionaries toml.load can return: each key present or not
ExcludeOpts == {EmptyDict, [exclude |-> <<N_sub>>]}
IncludeOpts == {EmptyDict, [include |-> <<N_a, P_pyc>>]}
MaxSizeOpts == {EmptyDict, [max_file_size |-> 1]}

UserDicts == {e @@ i @@ m : e \in ExcludeOpts, i \in IncludeOpts, m \in MaxSizeOpts}

Codepacks ==
    {[exists |-> FALSE, data |-> EmptyDict]}
    \cup {[exists |-> TRUE, data |-> d] : d \in UserDicts}

\* the calls: "." inside /w/proj, the absolute /w/proj, and a directory
\* named core, with the user name and the date of the call
Calls ==
    {[given |-> <<>>, resolved |-> <<N_w, N_proj>>,
      ldap |-> <<"a", "l">>, now |-> [year |-> 2024, month |-> 3, day |-> 5]],
     [given |-> <<N_w, N_proj>>, resolved |-> <<N_w, N_proj>>,
      ldap |-> <<"b", "o">>, now |-> [year |-> 2025, month |-> 12, day |-> 25]],
     [given |-> <<N_w, N_core>>, resolved |-> <<N_w, N_core>>,
      ldap |-> <<"a", "l">>, now |-> [year |-> 2024, month |-> 3, day |-> 5]]}

\* rglob yields every entry below the directory once, a directory before
\* what it contains; the order among siblings is that of os.scandir
Orders(S) ==
    {o \in [1..Cardinality(S) -> S] :
        /\ \A i, j \in 1..Cardinality(S) : i # j => o[i] # o[j]
        /\ \A i, j \in 1..Cardinality(S) :
              (Len(o[j]) > 1 /\ ParentOf(o[j]) = o[i]) => i < j}

NoPackage == [built |-> FALSE, id |-> <<>>, contents |-> <<>>]
NoError == [raised |-> FALSE, file |-> <<>>]

TreeInit(codepacks, calls) ==
    /\ \E P \in PathSets, cp \in codepacks, dsz \in DirSizes,
          bytesA \in Contents :
          /\ codepack = cp
          /\ fs = [p \in P \cup (IF cp.exists THEN {PathT} ELSE {}) |->
                      IF p = PathS
                      THEN [type |-> "dir", data |-> <<>>, st_size |-> dsz]
                      ELSE LET bytes == IF p = PathD THEN ContentsD
                                        ELSE IF p = PathT THEN ContentsT
                                        ELSE IF p = PathC THEN ContentsC
                                        ELSE bytesA
                           IN  [type |-> "reg", data |-> bytes,
                                st_size |-> Len(bytes)]]
    /\ order \in Orders(DOMAIN fs)
    /\ \E c \in calls :
          /\ directory = c.given
          /\ resolved = c.resolved
          /\ ldap = c.ldap
          /\ now = c.now
    /\ config = DefaultConfig
    /\ pos = 1
    /\ tar = <<>>
    /\ hash = Sha1Init
    /\ hashed = <<>>
    /\ package = NoPackage
    /\ error = NoError
    /\ dest = EmptyDict
    /\ digests = <<>>
    /\ renames = 0

Init ==
    /\ TreeInit(Codepacks, Calls)
    /\ pc = "start"
    /\ included_files = <<>>

(***************************************************************************)
(* tar_package                                                             *)
(***************************************************************************)
\* bundle.py:65-69
LoadConfig ==
    /\ pc = "start"
    /\ config' = IF codepack.exists THEN MergeConfig(config, codepack.data)
                 ELSE config
    /\ pc' = "filter"
    /\ pos' = 1
    /\ UNCHANGED <<fs, order, directory, resolved, codepack, ldap, now,
                   included_files, tar, hash, hashed, package, error, dest,
                   digests, renames>>

\* one iteration of the loop of _filter_files, consumed by list(...)
FilterStep ==
    /\ pc = "filter"
    /\ pos <= Len(order)
    /\ LET file == directory \o order[pos]
           d == Decide(file, fs[order[pos]].st_size, config.exclude,
                       config.include, config.max_file_size)
       IN  /\ included_files' = IF d = "yield" THEN Append(included_files, file)
                                ELSE included_files
           /\ IF d = "raise"
              THEN /\ pc' = "failed"
                   /\ error' = [raised |-> TRUE, file |-> file]
                   /\ pos' = pos
              ELSE /\ pc' = pc
                   /\ error' = error
                   /\ pos' = pos + 1
    /\ UNCHANGED <<fs, order, directory, resolved, codepack, ldap, now, config,
                   tar, hash, hashed, package, dest, digests, renames>>

\* the generator is exhausted; bundle.py:79-80
OpenTar ==
    /\ pc = "filter"
    /\ pos > Len(order)
    /\ pc' = "archive"
    /\ pos' = 1
    /\ tar' = <<>>
    /\ UNCHANGED <<fs, order, directory, resolved, codepack, ldap, now, config,
                   included_files, hash, hashed, package, error, dest, digests,
                   renames>>

\* bundle.py:81-82
TarAddStep ==
    /\ pc = "archive"
    /\ pos <= Len(included_files)
    /\ tar' = tar \o TarAdd(fs, directory, included_files[pos],
                            Arcname(included_files[pos], directory))
    /\ pos' = pos + 1
    /\ UNCHANGED <<fs, order, directory, resolved, codepack, ldap, now, pc,
                   config, included_files, hash, hashed, package, error, dest,
                   digests, renames>>

\* bundle.py:83-86 and 131
CloseTar ==
    /\ pc = "archive"
    /\ pos > Len(included_files)
    /\ pc' = "hash"
    /\ pos' = 1
    /\ hash' = Sha1Init
    /\ hashed' = <<>>
    /\ UNCHANGED <<fs, order, directory, resolved, codepack, ldap, now, config,
                   included_files, tar, package, error, dest, digests, renames>>

\* one iteration of the loop of _multi_file_sha1_hash
HashStep ==
    /\ pc = "hash"
    /\ pos <= Len(included_files)
    /\ hash' = HashUpdate(hash, fs, directory, included_files[pos])
    /\ hashed' = IF IsFile(fs, directory, included_files[pos])
                 THEN Append(hashed, fs[RelativeTo(included_files[pos], directory)].data)
                 ELSE hashed
    /\ pos' = pos + 1
    /\ UNCHANGED <<fs, order, directory, resolved, codepack, ldap, now, pc,
                   config, included_files, tar, package, error, dest, digests,
                   renames>>

\* bundle.py:85-91
BuildId ==
    /\ pc = "hash"
    /\ pos > Len(included_files)
    /\ package' = [built |-> TRUE,
                   id |-> PackageId(ldap, Basename(resolved), Strftime(now),
                                    Hexdigest(hash)),
                   contents |-> tar]
    /\ pc' = "done"
    /\ UNCHANGED <<fs, order, directory, resolved, codepack, ldap, now, config,
                   pos, included_files, tar, hash, hashed, error, dest, digests,
                   renames>>

(***************************************************************************)
(* tar_extract(package.contents, dest) into an empty dest                  *)
(***************************************************************************)
TarExtract ==
    /\ pc = "done"
    /\ dest' = ExtractAll(package.contents, dest)
    /\ pc' = "extracted"
    /\ UNCHANGED <<fs, order, directory, resolved, codepack, ldap, now, config,
                   pos, included_files, tar, hash, hashed, package, error,
                   digests, renames>>

Next ==
    \/ LoadConfig
    \/ FilterStep
    \/ OpenTar
    \/ TarAddStep
    \/ CloseTar
    \/ HashStep
    \/ BuildId
    \/ TarExtract

Spec == Init /\ [][Next]_vars

(***************************************************************************)
(* _multi_file_sha1_hash as a function of its argument: the list of every  *)
(* path of the tree is hashed, a regular file of the list is renamed in    *)
(* place, and the list is hashed again.                                    *)
(***************************************************************************)
InitHash ==
    /\ TreeInit({cp \in Codepacks : cp.data = EmptyDict},
                {c \in Calls : c.resolved = <<N_w, N_proj>>})
    /\ pc = "hashcall"
    /\ included_files = [i \in 1..Len(order) |-> directory \o order[i]]

HashCall ==
    /\ pc = "hashcall"
    /\ Len(digests) < MaxHashCalls
    /\ digests' = Append(digests,
                         [hex |-> MultiFileSha1Hash(fs, directory, included_files),
                          renamed |-> renames])
    /\ UNCHANGED <<fs, order, directory, resolved, codepack, ldap, now, pc,
                   config, pos, included_files, tar, hash, hashed, package,
                   error, dest, renames>>

\* os.rename of the i-th file of the list to e.py in the same directory; the
\* list names the file by its new path, at the same position
Rename ==
    /\ pc = "hashcall"
    /\ renames < MaxRenames
    /\ \E i \in 1..Len(included_files) :
          LET old == RelativeTo(included_files[i], directory)
              new == ParentOf(old) \o <<N_e>>
          IN  /\ IsFile(fs, directory, included_files[i])
              /\ new \notin DOMAIN fs
              /\ fs' = [p \in (DOMAIN fs \ {old}) \cup {new} |->
                           IF p = new THEN fs[old] ELSE fs[p]]
              /\ included_files' = [included_files EXCEPT ![i] = directory \o new]
              /\ order' = [k \in 1..Len(order) |->
                              IF order[k] = old THEN new ELSE order[k]]
    /\ renames' = renames + 1
    /\ UNCHANGED <<directory, resolved, codepack, ldap, now, pc, config, pos,
                   tar, hash, hashed, package, error, dest, digests>>

NextHash ==
    \/ HashCall
    \/ Rename

SpecHash == InitHash /\ [][NextHash]_vars

(***************************************************************************)
(* Vocabulary of the properties                                            *)
(***************************************************************************)
\* the path of the i-th entry as _filter_files sees it
Seen(i) == directory \o order[i]

Excluded(i) == MatchFile(config.exclude, Seen(i))
Included(i) == MatchFile(config.include, Seen(i))
Oversized(i) == fs[order[i]].st_size > config.max_file_size
Regular(i) == fs[order[i]].type = "reg"

InSeq(x, s) == \E k \in 1..Len(s) : s[k] = x

\* the traversal has reached the i-th entry
Reached(i) ==
    /\ i \in 1..Len(order)
    /\ pc # "start"
    /\ pc = "filter" => i < pos
    /\ pc = "failed" => i <= pos

Selected(i) == InSeq(Seen(i), included_files)

PastFilter == pc \in {"archive", "hash", "done", "extracted"}
Returned == pc \in {"done", "extracted"}

\* the bytes of the regular files of a list of paths, concatenated in order
RECURSIVE RegularBytes(_, _, _)
RegularBytes(f, dir, files) ==
    IF files = <<>> THEN <<>>
    ELSE (IF IsFile(f, dir, Head(files))
          THEN f[RelativeTo(Head(files), dir)].data ELSE <<>>)
         \o RegularBytes(f, dir, Tail(files))

\* the data of the regular members of an archive, in order
RECURSIVE MemberData(_)
MemberData(members) ==
    IF members = <<>> THEN <<>>
    ELSE (IF Head(members).type = "reg" THEN <<Head(members).data>> ELSE <<>>)
         \o MemberData(Tail(members))

(***************************************************************************)
(* Properties                                                              *)
(***************************************************************************)

\* C1 (as stated, for the default directory "." where the path matched is
\* the relative path): every regular file the traversal has reached and
\* whose path matches an include rule is selected by _filter_files, whatever
\* the exclude rules and its size, and is a member of the returned archive.
C1_IncludeAlwaysSelected ==
    \A i \in 1..Len(order) :
        (directory = <<>> /\ Reached(i) /\ Regular(i) /\ Included(i)) =>
            /\ Selected(i)
            /\ Returned => \E k \in 1..Len(package.contents) :
                              package.contents[k].name = order[i]

\* C1 (amended): a regular file the traversal has reached whose path matches
\* an include rule and no exclude rule is selected whatever its size, and is
\* a member of the returned archive; a file whose path matches an exclude
\* rule is not selected by _filter_files even when it matches an include
\* rule too.
C1_IncludeBypassesSizeOnly ==
    \A i \in 1..Len(order) :
        (Reached(i) /\ Regular(i)) =>
            /\ (Included(i) /\ ~Excluded(i)) =>
                  /\ Selected(i)
                  /\ Returned => \E k \in 1..Len(package.contents) :
                                    /\ package.contents[k].name = order[i]
                                    /\ package.contents[k].type = "reg"
            /\ Excluded(i) => ~Selected(i)

\* an oversized file that only an include rule matches was packaged, and a
\* file that both rule sets match was skipped
C1_Witness ==
    /\ Returned
    /\ \E i \in 1..Len(order) :
          Regular(i) /\ Included(i) /\ ~Excluded(i) /\ Oversized(i) /\ Selected(i)
    /\ \E i \in 1..Len(order) :
          Regular(i) /\ Included(i) /\ Excluded(i) /\ ~Selected(i)

\* C2: after tar_extract(tar_package(root).contents, dest) into an empty
\* dest, every regular file under dest has a relative path that
\* _filter_files yielded.
C2_OnlySelectedAtDest ==
    pc = "extracted" =>
        \A p \in DOMAIN dest :
            dest[p].type = "reg" => InSeq(directory \o p, included_files)

\* C3: after the round trip every selected regular file is at dest under
\* its path relative to the directory, with the bytes of the source, and
\* not under the path it has with the directory in front.
C3_RoundTrip ==
    pc = "extracted" =>
        \A i \in 1..Len(order) :
            (Selected(i) /\ Regular(i)) =>
                /\ order[i] \in DOMAIN dest
                /\ dest[order[i]].type = "reg"
                /\ dest[order[i]].data = fs[order[i]].data
                /\ directory # <<>> => Seen(i) \notin DOMAIN dest

C3_Witness ==
    /\ pc = "extracted"
    /\ directory # <<>>
    /\ \E i \in 1..Len(order) :
          Selected(i) /\ Regular(i) /\ Len(order[i]) = 2 /\ Len(fs[order[i]].data) = 2

\* C4: tar_package fails exactly when the traversal meets an entry larger
\* than max_file_size that neither rule set matches; the error names that
\* entry, which is the first such entry in traversal order, and no Package
\* is returned however many files were selected before it.
C4_OversizedAborts ==
    /\ error.raised <=> pc = "failed"
    /\ pc = "failed" =>
          /\ error.file = Seen(pos)
          /\ ~Excluded(pos) /\ ~Included(pos) /\ Oversized(pos)
          /\ \A j \in 1..(pos - 1) :
                ~(~Excluded(j) /\ ~Included(j) /\ Oversized(j))
          /\ package = NoPackage
          /\ tar = <<>>
    /\ PastFilter =>
          \A j \in 1..Len(order) :
              ~(~Excluded(j) /\ ~Included(j) /\ Oversized(j))

C4_Witness ==
    /\ pc = "failed"
    /\ Regular(pos)
    /\ Len(included_files) >= 2
    /\ package = NoPackage

\* C5: _filter_files yields only regular files, never a directory.
C5_NoDirectoryYielded ==
    \A k \in 1..Len(included_files) : IsFile(fs, directory, included_files[k])

\* C6: the relative paths selected depend only on the tree below the
\* directory and the policy: they are the ones the rules select on the
\* relative paths, wherever the directory is and however it is named.
C6_SelectionIndependentOfRoot ==
    pc \in {"failed", "archive", "hash", "done", "extracted"} =>
        LET verdict(rel) == Decide(rel, fs[rel].st_size, config.exclude,
                                   config.include, config.max_file_size)
            yields(rel) == verdict(rel) = "yield"
        IN  IF \E i \in 1..Len(order) : verdict(order[i]) = "raise"
            THEN pc = "failed"
            ELSE /\ pc # "failed"
                 /\ [k \in 1..Len(included_files) |->
                        RelativeTo(included_files[k], directory)]
                    = SelectSeq(order, yields)

\* C7: the digest is the sha1 of the bytes of the regular files of the list
\* in order and of nothing else: directories add nothing, and the digest of
\* a list is the same before and after a regular file of it is renamed.
C7_HashOfContentsOnly ==
    \A k \in 1..Len(digests) :
        /\ digests[k].hex =
              Hexdigest(Sha1Update(Sha1Init,
                                   RegularBytes(fs, directory, included_files)))
        /\ digests[k].hex = digests[1].hex

C7_Witness ==
    /\ Len(digests) = 2
    /\ digests[1].renamed = 0
    /\ digests[2].renamed = 1
    /\ \E k \in 1..Len(included_files) : ~IsFile(fs, directory, included_files[k])

\* C8: each of exclude, include and max_file_size of the effective policy
\* is the value of .codepack.toml when the file has the key, and the
\* built-in default otherwise; without the file the policy is the defaults.
C8_PerKeyOverride ==
    pc # "start" =>
        LET has(k) == codepack.exists /\ k \in DOMAIN codepack.data
        IN  /\ DOMAIN config = {"exclude", "include", "max_file_size"}
            /\ config.exclude = IF has("exclude") THEN codepack.data.exclude
                                ELSE DEFAULT_EXCLUDE_LIST
            /\ config.include = IF has("include") THEN codepack.data.include
                                ELSE <<>>
            /\ config.max_file_size =
                  IF has("max_file_size") THEN codepack.data.max_file_size
                  ELSE 100000
            /\ ~codepack.exists => config = DefaultConfig

C8_Witness ==
    /\ pc = "archive"
    /\ codepack.exists
    /\ DOMAIN codepack.data = {"exclude"}
    /\ config.exclude = <<N_sub>>
    /\ config.max_file_size = 100000

\* C9: Package.id is user, "_", the last component of the resolved
\* directory, "_", the date as YYYYMMDD, "_", and the last 8 characters of
\* the digest of the selected regular files.
C9_IdFormat ==
    Returned =>
        LET hex == Hexdigest(Sha1Update(Sha1Init,
                       RegularBytes(fs, directory, included_files)))
            date == IF now = [year |-> 2024, month |-> 3, day |-> 5]
                    THEN <<"2", "0", "2", "4", "0", "3", "0", "5">>
                    ELSE <<"2", "0", "2", "5", "1", "2", "2", "5">>
        IN  /\ package.built
            /\ package.id = ldap \o <<"_">> \o resolved[Len(resolved)] \o <<"_">>
                            \o date \o <<"_">>
                            \o [i \in 1..8 |-> hex[Len(hex) - 8 + i]]

C9_Witness ==
    /\ pc = "done"
    /\ directory = <<>>
    /\ Len(hashed) >= 2
    /\ Len(package.id) = 2 + 1 + 4 + 1 + 8 + 1 + 8

\* C10: the byte strings given to the hash are the data of the regular
\* members of the archive: the same files, in the same order, each once.
C10_HashAndArchiveAgree ==
    Returned => hashed = MemberData(package.contents)

====
